---------------------------- MODULE Spec2Model ----------------------------
(***************************************************************************)
(* pyfiglet: the FIGlet font loader (FigletFont.loadFont), the smushing    *)
(* rules (FigletRenderingEngine.smushChars / smushAmount), the rendering   *)
(* loop (FigletRenderingEngine.render) and the direction / justification   *)
(* resolution of Figlet.                                                   *)
(*                                                                         *)
(* A Python string is modelled as a sequence of one-character strings, so  *)
(* "AB" is <<"A", "B">> and '' is << >>.  A single character handed to     *)
(* smushChars is a one-character string, and "" is Python's ''.  An        *)
(* attribute that is None or an integer is << >> or <<n>>.  Glyph maps are *)
(* keyed by code point, and a text is the sequence of its code points      *)
(* (65, 66, 67 are "A", "B", "C").                                         *)
(***************************************************************************)
EXTENDS Integers, Sequences, FiniteSets, TLC

None == "None"

\* ------------------------------------------------------------------------
\* Bounds of the model
\* ------------------------------------------------------------------------
MaxLen == 3

\* ------------------------------------------------------------------------
\* Integer and string helpers (Python built-ins used by the code)
\* ------------------------------------------------------------------------
RECURSIVE BitAnd(_, _)
\* x & y on non-negative integers
BitAnd(x, y) ==
    IF x = 0 \/ y = 0 THEN 0
    ELSE (IF x % 2 = 1 /\ y % 2 = 1 THEN 1 ELSE 0)
         + 2 * BitAnd(x \div 2, y \div 2)

RECURSIVE BitOr(_, _)
\* x | y on non-negative integers
BitOr(x, y) ==
    IF x = 0 THEN y
    ELSE IF y = 0 THEN x
    ELSE (IF x % 2 = 1 \/ y % 2 = 1 THEN 1 ELSE 0)
         + 2 * BitOr(x \div 2, y \div 2)

\* the characters str.isspace() is true of, which str.strip, str.split and
\* \s of re take for whitespace: the blank, \t \n \r \f, and on the second
\* line U+000B, U+001C, U+001D, U+001E, U+001F, U+0085, U+00A0 and U+1680,
\* written as the characters themselves (a string of this module cannot
\* hold the others: U+2000 to U+200A, U+2028, U+2029, U+202F, U+205F, U+3000)
Whitespace ==
    {" ", "\t", "\n", "\r", "\f",
     "", "", "", "", "", "", " ", " "}

\* str.isspace() of a string of at most one character: '' is not space
isspace(c) == c \in Whitespace

RECURSIVE rstrip(_)
\* str.rstrip()
rstrip(s) ==
    IF s = << >> THEN << >>
    ELSE IF isspace(s[Len(s)]) THEN rstrip(SubSeq(s, 1, Len(s) - 1))
    ELSE s

RECURSIVE lstrip(_)
\* str.lstrip()
lstrip(s) ==
    IF s = << >> THEN << >>
    ELSE IF isspace(Head(s)) THEN lstrip(Tail(s))
    ELSE s

RECURSIVE Spaces(_)
\* ' ' * n : a non-positive count gives ''
Spaces(n) == IF n <= 0 THEN << >> ELSE <<" ">> \o Spaces(n - 1)

\* int(x / 2) : true division, then truncation toward zero
IntHalf(x) == IF x >= 0 THEN x \div 2 ELSE 0 - ((0 - x) \div 2)

\* c in s for a string c of at most one character: '' is in every string
InStr(c, s) == c = "" \/ c \in s

Max(a, b) == IF a >= b THEN a ELSE b

\* ------------------------------------------------------------------------
\* FigletRenderingEngine: constants
\* ------------------------------------------------------------------------
SM_EQUAL == 1
SM_LOWLINE == 2
SM_HIERARCHY == 4
SM_PAIR == 8
SM_BIGX == 16
SM_HARDBLANK == 32
SM_KERN == 64
SM_SMUSH == 128


\* The smushing rule table built by smushChars for the mode: (a, b) pairs
LowlineSmushes(mode) ==
    IF BitAnd(mode, SM_LOWLINE) # 0
    THEN << <<{"_"}, {"|", "/", "\\", "[", "]", "{", "}", "(", ")", "<", ">"}>> >>
    ELSE << >>

HierarchySmushes(mode) ==
    IF BitAnd(mode, SM_HIERARCHY) # 0
    THEN << <<{"|"}, {"|", "/", "\\", "[", "]", "{", "}", "(", ")", "<", ">"}>>,
            <<{"\\", "/"}, {"[", "]", "{", "}", "(", ")", "<", ">"}>>,
            <<{"[", "]"}, {"{", "}", "(", ")", "<", ">"}>>,
            <<{"{", "}"}, {"(", ")", "<", ">"}>>,
            <<{"(", ")"}, {"<", ">"}>> >>
    ELSE << >>

RECURSIVE SmushTable_ReturnsFirstClass(_, _, _)
\* the character found in a is returned, not the one found in b
SmushTable_ReturnsFirstClass(smushes, left, right) ==
    IF smushes = << >> THEN None
    ELSE IF InStr(left, Head(smushes)[1]) /\ InStr(right, Head(smushes)[2])
         THEN left
    ELSE IF InStr(right, Head(smushes)[1]) /\ InStr(left, Head(smushes)[2])
         THEN right
    ELSE SmushTable_ReturnsFirstClass(Tail(smushes), left, right)

RECURSIVE SmushTable(_, _, _)
\* for a, b in smushes: the first pair that decides, else None
SmushTable(smushes, left, right) ==
    IF smushes = << >> THEN None
    ELSE IF InStr(left, Head(smushes)[1]) /\ InStr(right, Head(smushes)[2])
         THEN right
    ELSE IF InStr(right, Head(smushes)[1]) /\ InStr(left, Head(smushes)[2])
         THEN left
    ELSE SmushTable(Tail(smushes), left, right)

\* The tail of smushChars: SM_PAIR and SM_BIGX
SmushPairBigX(left, right, mode) ==
    IF BitAnd(mode, SM_PAIR) # 0
       /\ (<<left, right>> \in {<<"[", "]">>, <<"{", "}">>, <<"(", ")">>}
           \/ <<right, left>> \in {<<"[", "]">>, <<"{", "}">>, <<"(", ")">>})
    THEN "|"
    ELSE IF BitAnd(mode, SM_BIGX) # 0 /\ left = "/" /\ right = "\\" THEN "|"
    ELSE IF BitAnd(mode, SM_BIGX) # 0 /\ right = "/" /\ left = "\\" THEN "Y"
    ELSE IF BitAnd(mode, SM_BIGX) # 0 /\ left = ">" /\ right = "<" THEN "X"
    ELSE None

\* a wrong bit tested
KerningOnly_TestsKern(mode) == BitAnd(mode, SM_KERN) = 0

\* smushChars, "kerning only": the SMUSH bit is not set
KerningOnly(mode) == BitAnd(mode, SM_SMUSH) = 0

\* equal characters never smush
EqualRule_Never(left, right, mode) == FALSE

\* smushChars, SM_EQUAL: equal characters smush into one
EqualRule(left, right, mode) == BitAnd(mode, SM_EQUAL) # 0 /\ left = right

\* c == hardBlank for a string c of at most one character
IsHardBlank(c, hb) == c # "" /\ hb = <<c>>

\* the rightmost character is always the one in front
UniversalSmush_Rightmost(left, right, hb, dir) ==
    IF IsHardBlank(left, hb) THEN right
    ELSE IF IsHardBlank(right, hb) THEN left
    ELSE right

\* smushChars, "smushing by universal overlapping": a visible character is
\* preferred to the hard blank, and then the character of the glyph that
\* comes later in the text
UniversalSmush(left, right, hb, dir) ==
    IF IsHardBlank(left, hb) THEN right
    ELSE IF IsHardBlank(right, hb) THEN left
    ELSE IF dir = "right-to-left" THEN left
    ELSE right

\* FigletRenderingEngine.smushChars: the merged character, or None.
\* prevW, curW are self.prevCharWidth and self.curCharWidth; mode, hb are
\* Font.smushMode and Font.hardBlank; dir is self.base.direction.
smushChars(left, right, prevW, curW, mode, hb, dir) ==
    IF isspace(left) THEN right
    ELSE IF isspace(right) THEN left
    ELSE IF prevW < 2 \/ curW < 2 THEN None
    ELSE IF KerningOnly(mode) THEN None
    ELSE IF BitAnd(mode, 63) = 0 THEN UniversalSmush(left, right, hb, dir)
    ELSE IF BitAnd(mode, SM_HARDBLANK) # 0
            /\ IsHardBlank(left, hb) /\ IsHardBlank(right, hb) THEN left
    ELSE IF IsHardBlank(left, hb) \/ IsHardBlank(right, hb) THEN None
    ELSE IF EqualRule(left, right, mode) THEN left
    ELSE LET t == SmushTable(LowlineSmushes(mode) \o HierarchySmushes(mode),
                             left, right)
         IN  IF t # None THEN t ELSE SmushPairBigX(left, right, mode)

\* One row of smushAmount's loop: the overlap this row allows.
\* lineLeft, lineRight are already swapped for right-to-left.
RowAmount(lineLeft, lineRight, prevW, curW, mode, hb, dir) ==
    LET bd0 == Len(rstrip(lineLeft)) - 1
        bd1 == IF bd0 < 0 THEN 0 ELSE bd0
        inL == bd1 < Len(lineLeft)
        linebd == IF inL THEN bd1 ELSE 0
        ch1 == IF inL THEN lineLeft[bd1 + 1] ELSE ""
        cb0 == Len(lineRight) - Len(lstrip(lineRight))
        inR == cb0 < Len(lineRight)
        charbd == IF inR THEN cb0 ELSE Len(lineRight)
        ch2 == IF inR THEN lineRight[cb0 + 1] ELSE ""
        amt == charbd + Len(lineLeft) - 1 - linebd
    IN  IF ch1 = "" \/ ch1 = " " THEN amt + 1
        ELSE IF ch2 # "" /\ smushChars(ch1, ch2, prevW, curW, mode, hb, dir) # None
             THEN amt + 1
        ELSE amt

RECURSIVE AmountFrom(_, _, _, _, _, _, _, _, _, _)
\* smushAmount's loop over the rows row..height, maxSmush the running minimum
AmountFrom(row, height, maxSmush, buf, curChar, prevW, curW, mode, hb, dir) ==
    IF row > height THEN maxSmush
    ELSE LET lineLeft == IF dir = "right-to-left" THEN curChar[row] ELSE buf[row]
             lineRight == IF dir = "right-to-left" THEN buf[row] ELSE curChar[row]
             amt == RowAmount(lineLeft, lineRight, prevW, curW, mode, hb, dir)
         IN  AmountFrom(row + 1, height,
                        IF amt < maxSmush THEN amt ELSE maxSmush,
                        buf, curChar, prevW, curW, mode, hb, dir)

\* FigletRenderingEngine.smushAmount
smushAmount(buf, curChar, height, prevW, curW, mode, hb, dir) ==
    IF BitAnd(mode, BitOr(SM_SMUSH, SM_KERN)) = 0 THEN 0
    ELSE AmountFrom(1, height, curW, buf, curChar, prevW, curW, mode, hb, dir)


RECURSIVE MergeRow(_, _, _, _, _, _, _, _, _)
\* render's loop "for i in range(0, maxSmush)" for one row, from i on, and
\* then "addLeft + addRight[maxSmush:]".  err names the exception raised:
\* IndexError by addRight[i], TypeError by ''.join(l) once l[idx] is None.
MergeRow(addLeft, addRight, maxSmush, i, prevW, curW, mode, hb, dir) ==
    IF i >= maxSmush
    THEN [err |-> None,
          row |-> addLeft \o SubSeq(addRight, maxSmush + 1, Len(addRight))]
    ELSE LET idx == Len(addLeft) - maxSmush + i
             inRange == idx >= 0 /\ idx < Len(addLeft)
             left == IF inRange THEN addLeft[idx + 1] ELSE ""
         IN  IF i >= Len(addRight)
             THEN [err |-> "IndexError", row |-> addLeft]
             ELSE LET right == addRight[i + 1]
                      smushed == smushChars(left, right, prevW, curW, mode, hb, dir)
                  IN  IF inRange /\ smushed = None
                      THEN [err |-> "TypeError", row |-> addLeft]
                      ELSE MergeRow(IF inRange
                                    THEN [addLeft EXCEPT ![idx + 1] = smushed]
                                    ELSE addLeft,
                                    addRight, maxSmush, i + 1,
                                    prevW, curW, mode, hb, dir)

RECURSIVE MergeRows(_, _, _, _, _, _, _, _, _, _)
\* render's loop "for row in range(0, height)" from row on; it stops at the
\* first row that raises
MergeRows(row, height, buf, curChar, maxSmush, prevW, curW, mode, hb, dir) ==
    IF row > height THEN [err |-> None, buffer |-> buf]
    ELSE LET addLeft == IF dir = "right-to-left" THEN curChar[row] ELSE buf[row]
             addRight == IF dir = "right-to-left" THEN buf[row] ELSE curChar[row]
             m == MergeRow(addLeft, addRight, maxSmush, 0,
                           prevW, curW, mode, hb, dir)
         IN  IF m.err # None THEN [err |-> m.err, buffer |-> buf]
             ELSE MergeRows(row + 1, height, [buf EXCEPT ![row] = m.row],
                            curChar, maxSmush, prevW, curW, mode, hb, dir)

\* The body of render's loop for a character the font has: smushAmount and
\* the merge of every row
AddChar(buf, curChar, height, prevW, curW, mode, hb, dir) ==
    MergeRows(1, height, buf, curChar,
              smushAmount(buf, curChar, height, prevW, curW, mode, hb, dir),
              prevW, curW, mode, hb, dir)

\* ------------------------------------------------------------------------
\* Figlet: direction and justification
\* ------------------------------------------------------------------------
\* the font's print direction read the wrong way round
getDirection_Swapped(dirOpt, printDirection) ==
    IF dirOpt = "auto"
    THEN IF printDirection = <<0>> THEN "right-to-left"
         ELSE IF printDirection = <<1>> THEN "left-to-right"
         ELSE "left-to-right"
    ELSE dirOpt

\* Figlet.getDirection
\* (printDirection is << >> when the header has no such field, else <<n>>)
getDirection(dirOpt, printDirection) ==
    IF dirOpt = "auto"
    THEN IF printDirection = <<0>> THEN "left-to-right"
         ELSE IF printDirection = <<1>> THEN "right-to-left"
         ELSE "left-to-right"
    ELSE dirOpt

\* Figlet.getJustify: an explicit direction that is neither of the two
\* known ones falls off the end of the method (None)
getJustify(justOpt, dir) ==
    IF justOpt = "auto"
    THEN IF dir = "left-to-right" THEN "left"
         ELSE IF dir = "right-to-left" THEN "right"
         ELSE None
    ELSE justOpt

\* padding as str.rjust would pad
JustifyPad_Rjust(just, w, len) ==
    IF just = "right" THEN Spaces(w - len)
    ELSE IF just = "center" THEN Spaces(IntHalf(w - len))
    ELSE << >>

\* The padding render puts in front of a row of length len
JustifyPad(just, w, len) ==
    IF just = "right" THEN Spaces(w - len - 1)
    ELSE IF just = "center" THEN Spaces(IntHalf(w - len))
    ELSE << >>

RECURSIVE Join(_)
\* '\n'.join(buffer) + '\n'
Join(rows) ==
    IF rows = << >> THEN <<"\n">>
    ELSE IF Len(rows) = 1 THEN Head(rows) \o <<"\n">>
    ELSE Head(rows) \o <<"\n">> \o Join(Tail(rows))

RECURSIVE ReplaceHardBlank_First(_, _)
\* only the first hard blank is replaced
ReplaceHardBlank_First(s, hb) ==
    IF Len(s) < Len(hb) THEN s
    ELSE IF SubSeq(s, 1, Len(hb)) = hb
         THEN <<" ">> \o SubSeq(s, Len(hb) + 1, Len(s))
    ELSE <<Head(s)>> \o ReplaceHardBlank_First(Tail(s), hb)

RECURSIVE ReplaceHardBlank(_, _)
\* str.replace(hardBlank, ' '): every occurrence, left to right
ReplaceHardBlank(s, hb) ==
    IF Len(s) < Len(hb) THEN s
    ELSE IF SubSeq(s, 1, Len(hb)) = hb
         THEN <<" ">> \o ReplaceHardBlank(SubSeq(s, Len(hb) + 1, Len(s)), hb)
    ELSE <<Head(s)>> \o ReplaceHardBlank(Tail(s), hb)

\* ------------------------------------------------------------------------
\* Rendering: the fonts, texts and settings the model draws from
\* ------------------------------------------------------------------------
\* FigletFont.loadFont's width of a glyph: the longest row
RECURSIVE GlyphWidth(_)
GlyphWidth(rows) ==
    IF rows = << >> THEN 0 ELSE Max(Len(Head(rows)), GlyphWidth(Tail(rows)))

\* Glyph maps (Font.chars), keyed by the code point; every glyph of a map
\* has the same number of rows
GlyphSets ==
    { (65 :> << <<"A", "B">> >>) @@ (67 :> << <<"C", "D">> >>),
      (65 :> << <<"A", "X">> >>) @@ (66 :> << <<"X", "B">> >>),
      (65 :> << <<"A", " ">> >>) @@ (66 :> << <<" ", "B">> >>),
      (65 :> << <<"A", "$">>, <<"A", " ">> >>)
          @@ (66 :> << <<"$", "B">>, <<" ", "B">> >>),
      (65 :> << <<"X", " ">>, <<"X", " ">> >>)
          @@ (66 :> << <<"X">>, << >> >>),
      (65 :> << <<"X">> >>) @@ (66 :> << <<"X", "X">> >>),
      (65 :> << <<"A", "X">>, <<"A", "Y">> >>)
          @@ (66 :> << <<"X", "B">>, <<"Y", "B">> >>),
      (65 :> << <<" ", " ">> >>) @@ (66 :> << <<"$", "X">> >>) }

Modes == {0, 64, 128, 129, 191}

PrintDirections == {<< >>, <<0>>, <<1>>, <<2>>}

HeightOf(chars) == Len(chars[CHOOSE c \in DOMAIN chars : TRUE])

Fonts ==
    { [height |-> HeightOf(g), hardBlank |-> <<"$">>, printDirection |-> pd,
       smushMode |-> m, chars |-> g,
       width |-> [c \in DOMAIN g |-> GlyphWidth(g[c])]] :
      g \in GlyphSets, m \in Modes, pd \in PrintDirections }

TextChars == {65, 66, 67}

Texts == UNION {[1..n -> TextChars] : n \in 0..MaxLen}

Directions == {"auto", "left-to-right", "right-to-left"}

Justifications == {"auto", "left", "right", "center"}

Widths == {2, 10}

VARIABLES
    Font,            \* Figlet.Font, the loaded FigletFont
    _direction,      \* Figlet._direction
    _justify,        \* Figlet._justify
    width,           \* Figlet.width
    text,            \* render's argument
    pos,             \* number of characters of text the loop has consumed
    buffer,          \* render's local buffer
    prevCharWidth,   \* FigletRenderingEngine.prevCharWidth
    curCharWidth,    \* FigletRenderingEngine.curCharWidth
    out,             \* the string render returns, << >> before it returns
    pc,              \* where render is
    found,           \* preloadFont: a .tlf or .flf resource of the name exists
    file,            \* the lines of that resource (resource_string)
    kwargs,          \* FigletFont.__init__: << >> or <<smushMode>>
    self,            \* the FigletFont under construction
    data,            \* loadFont's data: the lines not yet consumed
    header,          \* loadFont's header: the tokens of the first line
    commentLines,    \* loadFont's commentLines
    ichar,           \* loadFont's loop variable i
    cause,           \* what FontError reports
    lpc,             \* where FigletFont(font) is
    call,            \* a call of smushChars: its arguments and what it returns
    renders,         \* the locals of the calls of render that share the engine
    fstring          \* a FigletString and what reverse() has made of it

rvars == <<_direction, _justify, width, text, pos, buffer,
           prevCharWidth, curCharWidth, out, pc>>

lvars == <<found, file, kwargs, self, data, header, commentLines, ichar, cause, lpc>>

ovars == <<call, renders, fstring>>

vars == <<Font, rvars, lvars, ovars>>

\* who calls render on the engine when calls share it
Callers == 1..2

\* the locals of a call of render that has not begun
IdleRender ==
    [pc |-> "idle", text |-> << >>, pos |-> 0, buffer |-> << >>, maxSmush |-> 0,
     row |-> 0, i |-> 0, addLeft |-> << >>, prevW |-> 0, curW |-> 0, out |-> << >>]

\* no call of smushChars from outside render, no render that shares, no
\* FigletString at hand
NoCall == [pc |-> "idle", left |-> "", right |-> "", smushed |-> None]
NoRenders == [t \in Callers |-> IdleRender]
NoString == [self |-> << >>, out |-> << >>, n |-> 0]

\* FigletFont.__init__ before preloadFont and loadFont
NewSelf ==
    [comment |-> << >>, chars |-> << >>, width |-> << >>, height |-> << >>,
     hardBlank |-> << >>, printDirection |-> << >>, smushMode |-> << >>]

\* Figlet.direction and Figlet.justify (properties)
direction == getDirection(_direction, Font.printDirection)
justify == getJustify(_justify, direction)

\* Figlet.__init__ has run with a font that loaded; render has not been
\* called (the two widths are attributes render creates, 0 stands for their
\* absence)
Init ==
    /\ Font \in Fonts
    /\ _direction \in Directions
    /\ _justify \in Justifications
    /\ width \in Widths
    /\ text = << >>
    /\ pos = 0
    /\ buffer = << >>
    /\ prevCharWidth = 0
    /\ curCharWidth = 0
    /\ out = << >>
    /\ pc = "idle"
    /\ found = TRUE
    /\ file = << >>
    /\ kwargs = << >>
    /\ self = NewSelf
    /\ data = << >>
    /\ header = << >>
    /\ commentLines = 0
    /\ ichar = 0
    /\ cause = None
    /\ lpc = "loaded"
    /\ call = NoCall
    /\ renders = NoRenders
    /\ fstring = NoString

\* render(text): the two widths are reset and the buffer is height empty rows
RenderStart ==
    /\ pc = "idle"
    /\ \E t \in Texts : text' = t
    /\ pos' = 0
    /\ buffer' = [r \in 1..Font.height |-> << >>]
    /\ prevCharWidth' = 0
    /\ curCharWidth' = 0
    /\ pc' = "loop"
    /\ UNCHANGED <<ovars, lvars, Font, _direction, _justify, width, out>>

\* the unknown character taken for a glyph of width 0
SkipChar_ZeroWidth ==
    /\ pc = "loop"
    /\ pos < Len(text)
    /\ text[pos + 1] \notin DOMAIN Font.chars
    /\ pos' = pos + 1
    /\ curCharWidth' = 0
    /\ prevCharWidth' = 0
    /\ UNCHANGED <<ovars, lvars, Font, _direction, _justify, width, text, buffer, out, pc>>

\* A character the font has no glyph for: continue
SkipChar ==
    /\ pc = "loop"
    /\ pos < Len(text)
    /\ text[pos + 1] \notin DOMAIN Font.chars
    /\ pos' = pos + 1
    /\ UNCHANGED <<ovars, lvars, Font, _direction, _justify, width, text, buffer,
                   prevCharWidth, curCharWidth, out, pc>>

\* A character of the font: the glyph is merged into every row of the buffer,
\* or the merge raises
AppendChar ==
    /\ pc = "loop"
    /\ pos < Len(text)
    /\ text[pos + 1] \in DOMAIN Font.chars
    /\ LET c == text[pos + 1]
           m == AddChar(buffer, Font.chars[c], Font.height, prevCharWidth,
                        Font.width[c], Font.smushMode, Font.hardBlank, direction)
       IN  /\ curCharWidth' = Font.width[c]
           /\ IF m.err = None
              THEN /\ buffer' = m.buffer
                   /\ prevCharWidth' = Font.width[c]
                   /\ pos' = pos + 1
                   /\ pc' = "loop"
              ELSE /\ pc' = m.err
                   /\ UNCHANGED <<buffer, prevCharWidth, pos>>
    /\ UNCHANGED <<ovars, lvars, Font, _direction, _justify, width, text, out>>

\* After the loop: every row is padded on the left
Justify ==
    /\ pc = "loop"
    /\ pos = Len(text)
    /\ buffer' = [r \in 1..Font.height |->
                    JustifyPad(justify, width, Len(buffer[r])) \o buffer[r]]
    /\ pc' = "justified"
    /\ UNCHANGED <<ovars, lvars, Font, _direction, _justify, width, text, pos,
                   prevCharWidth, curCharWidth, out>>

\* The rows are joined, the hard blanks replaced and the string returned
Return ==
    /\ pc = "justified"
    /\ out' = ReplaceHardBlank(Join(buffer), Font.hardBlank)
    /\ pc' = "done"
    /\ UNCHANGED <<ovars, lvars, Font, _direction, _justify, width, text, pos, buffer,
                   prevCharWidth, curCharWidth>>

Next == RenderStart \/ SkipChar \/ AppendChar \/ Justify \/ Return

Spec == Init /\ [][Next]_vars


\* ------------------------------------------------------------------------
\* Properties of rendering
\* ------------------------------------------------------------------------
IsNonSpace(c) == c # " "
NonSpace(s) == SelectSeq(s, IsNonSpace)
IsKnown(c) == c \in DOMAIN Font.chars
Last(s) == s[Len(s)]

\* The step of render's loop that merges the glyph of text[pos + 1]
AppendStep ==
    /\ pc = "loop"
    /\ pos < Len(text)
    /\ text[pos + 1] \in DOMAIN Font.chars
    /\ pos' = pos + 1

CurGlyph == Font.chars[text[pos + 1]]

ExampleKern == (65 :> << <<"A", "B">> >>) @@ (67 :> << <<"C", "D">> >>)
ExampleEqual == (65 :> << <<"A", "X">> >>) @@ (66 :> << <<"X", "B">> >>)

\* C1: kerning only (smushMode = 64), left-to-right: appending a glyph keeps
\* every row's non-space characters (hard blanks included) and puts the
\* glyph's after them; glyphs whose facing columns are non-blank in some row
\* are concatenated whole; "AC" with A = ["AB"], C = ["CD"] gives "ABCD\n".
KernStep ==
    (AppendStep /\ Font.smushMode = 64 /\ direction = "left-to-right")
    => /\ \A r \in 1..Font.height :
            NonSpace(buffer'[r]) = NonSpace(buffer[r]) \o NonSpace(CurGlyph[r])
       /\ (\E r \in 1..Font.height :
              /\ buffer[r] # << >> /\ Last(buffer[r]) # " "
              /\ CurGlyph[r] # << >> /\ Head(CurGlyph[r]) # " ")
          => \A r \in 1..Font.height : buffer'[r] = buffer[r] \o CurGlyph[r]

KernExample ==
    (/\ pc = "done" /\ Font.chars = ExampleKern /\ Font.smushMode = 64
     /\ direction = "left-to-right" /\ justify = "left"
     /\ text = <<65, 67>>)
    => out = <<"A", "B", "C", "D", "\n">>

C1_KerningNeverOverlaps == [][KernStep]_vars /\ []KernExample

C1_Witness ==
    /\ pc = "done" /\ Font.chars = ExampleKern /\ Font.smushMode = 64
    /\ direction = "left-to-right" /\ justify = "left"
    /\ text = <<65, 67>>
    /\ out = <<"A", "B", "C", "D", "\n">>

\* The case of C2: both glyphs at least 2 wide and, in every row, the buffer
\* ends in the visible character the glyph starts with
EqualFacing ==
    /\ Font.smushMode = 129
    /\ prevCharWidth >= 2
    /\ Font.width[text[pos + 1]] >= 2
    /\ \A r \in 1..Font.height :
          /\ buffer[r] # << >>
          /\ CurGlyph[r] # << >>
          /\ Last(buffer[r]) = Head(CurGlyph[r])
          /\ ~isspace(Head(CurGlyph[r]))
          /\ ~IsHardBlank(Head(CurGlyph[r]), Font.hardBlank)

EqualResult ==
    /\ smushAmount(buffer, CurGlyph, Font.height, prevCharWidth,
                   Font.width[text[pos + 1]], Font.smushMode, Font.hardBlank,
                   direction) = 1
    /\ \A r \in 1..Font.height : buffer'[r] = buffer[r] \o Tail(CurGlyph[r])

\* C2 as stated (any direction): with SMUSH|EQUAL, equal facing visible
\* characters give a smush amount of 1 and each row becomes the buffer row
\* followed by the glyph row without its first character.
C2_EqualSmush_AnyDirection ==
    [][(pc = "loop" /\ pos < Len(text) /\ text[pos + 1] \in DOMAIN Font.chars
        /\ EqualFacing) => (AppendStep /\ EqualResult)]_vars

\* C2 amended: the same for left-to-right rendering; "AB" with A = ["AX"],
\* B = ["XB"] gives "AXB\n".
C2_EqualSmush ==
    /\ [][(pc = "loop" /\ pos < Len(text) /\ text[pos + 1] \in DOMAIN Font.chars
           /\ EqualFacing /\ direction = "left-to-right")
          => (AppendStep /\ EqualResult)]_vars
    /\ []((/\ pc = "done" /\ Font.chars = ExampleEqual /\ Font.smushMode = 129
           /\ direction = "left-to-right" /\ justify = "left"
           /\ text = <<65, 66>>)
          => out = <<"A", "X", "B", "\n">>)

C2_Witness ==
    /\ pc = "done" /\ Font.chars = ExampleEqual /\ Font.smushMode = 129
    /\ direction = "left-to-right" /\ justify = "left"
    /\ text = <<65, 66>>
    /\ out = <<"A", "X", "B", "\n">>

\* C3: render never raises: no index out of range on a glyph or buffer row
\* and no None written into a row.
C3_RenderRaisesNoError == pc \notin {"IndexError", "TypeError"}

\* C4: the returned string holds no hard blank: it is the joined, justified
\* buffer with a space wherever the buffer holds a hard blank and the
\* buffer's character everywhere else; nothing is returned, and no row is
\* substituted, before the merge and the justification are over.
C4_HardBlankSubstitution ==
    /\ pc # "done" => out = << >>
    /\ pc = "done" =>
          /\ \A i \in 1..Len(out) : ~IsHardBlank(out[i], Font.hardBlank)
          /\ Len(out) = Len(Join(buffer))
          /\ \A i \in 1..Len(out) :
                out[i] = IF IsHardBlank(Join(buffer)[i], Font.hardBlank) THEN " "
                         ELSE Join(buffer)[i]

C4_Witness ==
    /\ pc = "done"
    /\ \E r \in 1..Font.height : \E i \in 1..Len(buffer[r]) :
          /\ IsHardBlank(buffer[r][i], Font.hardBlank)
          /\ i < Len(buffer[r])
          /\ buffer[r][i + 1] # " "
          /\ ~IsHardBlank(buffer[r][i + 1], Font.hardBlank)
    /\ \E i \in 1..Len(out) :
          IsHardBlank(Join(buffer)[i], Font.hardBlank) /\ out[i] = " "


\* render of a text whose characters all have glyphs, computed in one go:
\* the rows after the loop, or the exception
RECURSIVE RenderFrom(_, _, _, _)
RenderFrom(t, i, buf, prevW) ==
    IF i > Len(t) THEN [err |-> None, buffer |-> buf]
    ELSE LET m == AddChar(buf, Font.chars[t[i]], Font.height, prevW,
                          Font.width[t[i]], Font.smushMode, Font.hardBlank,
                          direction)
         IN  IF m.err # None THEN m
             ELSE RenderFrom(t, i + 1, m.buffer, Font.width[t[i]])

RenderOf(t) ==
    LET m == RenderFrom(t, 1, [r \in 1..Font.height |-> << >>], 0)
    IN  IF m.err # None THEN [err |-> m.err, out |-> << >>]
        ELSE [err |-> None,
              out |-> ReplaceHardBlank(
                         Join([r \in 1..Font.height |->
                                 JustifyPad(justify, width, Len(m.buffer[r]))
                                 \o m.buffer[r]]),
                         Font.hardBlank)]

\* C5: a character the font has no glyph for is skipped: the step leaves the
\* buffer and both tracked widths as they were, and render(text) ends as
\* render of text without its unknown characters ends.
SkipStep ==
    (pc = "loop" /\ pos < Len(text) /\ text[pos + 1] \notin DOMAIN Font.chars)
    => /\ pc' = "loop" /\ pos' = pos + 1
       /\ UNCHANGED <<buffer, prevCharWidth, curCharWidth>>

SkipResult ==
    /\ pc = "done" => RenderOf(SelectSeq(text, IsKnown)) = [err |-> None, out |-> out]
    /\ pc \in {"IndexError", "TypeError"}
          => RenderOf(SelectSeq(text, IsKnown)).err = pc

C5_UnknownCodepointSkip == [][SkipStep]_vars /\ []SkipResult

\* an unknown character between two glyphs that smush
C5_Witness ==
    /\ pc = "done" /\ Font.chars = ExampleEqual /\ Font.smushMode = 129
    /\ direction = "left-to-right" /\ justify = "left"
    /\ text = <<65, 67, 66>>
    /\ out = <<"A", "X", "B", "\n">>

\* C6: justification pads each row of length L on the left with
\* max(0, W - L - 1) spaces for 'right', max(0, floor((W - L) / 2)) for
\* 'center' and nothing for 'left'.
PadCount(just, w, len) ==
    IF just = "right" THEN Max(0, w - len - 1)
    ELSE IF just = "center" THEN Max(0, (w - len) \div 2)
    ELSE 0

JustifyStep ==
    (pc = "loop" /\ pc' = "justified" /\ justify \in {"left", "right", "center"})
    => \A r \in 1..Font.height :
          buffer'[r] = [i \in 1..PadCount(justify, width, Len(buffer[r])) |-> " "]
                       \o buffer[r]

C6_Justification == [][JustifyStep]_vars

\* W = 10, L = 4, 'right': 5 spaces
C6_Witness ==
    /\ pc = "justified" /\ justify = "right" /\ width = 10
    /\ Font.height = 1
    /\ Len(buffer[1]) = 9
    /\ \A i \in 1..5 : buffer[1][i] = " "
    /\ buffer[1][6] # " "

\* C7: an explicit direction wins over the font; with 'auto' the direction
\* is right-to-left exactly when printDirection is 1; with justify 'auto'
\* the justification is 'left' for left-to-right and 'right' for
\* right-to-left.
C7_DirectionJustifyResolution ==
    /\ _direction # "auto" => direction = _direction
    /\ _direction = "auto" =>
          direction = IF Font.printDirection = <<1>> THEN "right-to-left"
                      ELSE "left-to-right"
    /\ (_justify = "auto" /\ direction = "left-to-right") => justify = "left"
    /\ (_justify = "auto" /\ direction = "right-to-left") => justify = "right"
    /\ (/\ pc = "done" /\ _direction = "auto" /\ _justify = "auto"
        /\ Font.printDirection = <<1>> /\ Font.chars = ExampleKern
        /\ Font.smushMode = 64 /\ width = 10 /\ text = <<65, 67>>)
       => out = <<" ", " ", " ", " ", " ", "C", "D", "A", "B", "\n">>

C7_Witness ==
    /\ pc = "done" /\ _direction = "auto" /\ _justify = "auto"
    /\ Font.printDirection = <<1>> /\ Font.chars = ExampleKern
    /\ Font.smushMode = 64 /\ width = 10 /\ text = <<65, 67>>
    /\ out = <<" ", " ", " ", " ", " ", "C", "D", "A", "B", "\n">>


\* ------------------------------------------------------------------------
\* FigletFont: parsing a font
\* ------------------------------------------------------------------------
\* FigletFont.reMagicNumber.search(line) is not None: ^[tf]lf2.
reMagicNumber(line) ==
    /\ Len(line) >= 5
    /\ line[1] \in {"t", "f"}
    /\ line[2] = "l"
    /\ line[3] = "f"
    /\ line[4] = "2"
    /\ line[5] # "\n"

\* reMagicNumber.sub('', line) of a line that matches: the match is cut
StripMagic(line) == SubSeq(line, 6, Len(line))

RECURSIVE TokenLen(_)
\* the number of leading non-whitespace characters
TokenLen(s) ==
    IF s = << >> \/ isspace(Head(s)) THEN 0 ELSE 1 + TokenLen(Tail(s))

RECURSIVE split(_)
\* str.split()
split(s) ==
    LET t == lstrip(s)
    IN  IF t = << >> THEN << >>
        ELSE <<SubSeq(t, 1, TokenLen(t))>>
             \o split(SubSeq(t, TokenLen(t) + 1, Len(t)))

\* the decimal digits int() takes (Unicode category Nd), ten of a script in
\* the order of their values: the ASCII digits and the runs that start at
\* U+06F0, U+07C0, U+09E6, U+0AE6, U+0BE6, U+0CE6, U+0DE6, U+0ED0, U+1090,
\* U+17E0, U+19D0, U+1A80, U+1A90, U+1BB0, U+A8D0, U+A9D0, U+A9F0, U+ABF0.
\* The digits of the other scripts (U+0660, U+0966, U+FF10, ...) are no
\* characters a string of this module can be written with; int() takes them
\* the same way.
DigitRuns ==
    <<
       <<"0", "1", "2", "3", "4", "5", "6", "7", "8", "9">>,
       <<"۰", "۱", "۲", "۳", "۴", "۵", "۶", "۷", "۸", "۹">>,
       <<"߀", "߁", "߂", "߃", "߄", "߅", "߆", "߇", "߈", "߉">>,
       <<"০", "১", "২", "৩", "৪", "৫", "৬", "৭", "৮", "৯">>,
       <<"૦", "૧", "૨", "૩", "૪", "૫", "૬", "૭", "૮", "૯">>,
       <<"௦", "௧", "௨", "௩", "௪", "௫", "௬", "௭", "௮", "௯">>,
       <<"೦", "೧", "೨", "೩", "೪", "೫", "೬", "೭", "೮", "೯">>,
       <<"෦", "෧", "෨", "෩", "෪", "෫", "෬", "෭", "෮", "෯">>,
       <<"໐", "໑", "໒", "໓", "໔", "໕", "໖", "໗", "໘", "໙">>,
       <<"႐", "႑", "႒", "႓", "႔", "႕", "႖", "႗", "႘", "႙">>,
       <<"០", "១", "២", "៣", "៤", "៥", "៦", "៧", "៨", "៩">>,
       <<"᧐", "᧑", "᧒", "᧓", "᧔", "᧕", "᧖", "᧗", "᧘", "᧙">>,
       <<"᪀", "᪁", "᪂", "᪃", "᪄", "᪅", "᪆", "᪇", "᪈", "᪉">>,
       <<"᪐", "᪑", "᪒", "᪓", "᪔", "᪕", "᪖", "᪗", "᪘", "᪙">>,
       <<"᮰", "᮱", "᮲", "᮳", "᮴", "᮵", "᮶", "᮷", "᮸", "᮹">>,
       <<"꣐", "꣑", "꣒", "꣓", "꣔", "꣕", "꣖", "꣗", "꣘", "꣙">>,
       <<"꧐", "꧑", "꧒", "꧓", "꧔", "꧕", "꧖", "꧗", "꧘", "꧙">>,
       <<"꧰", "꧱", "꧲", "꧳", "꧴", "꧵", "꧶", "꧷", "꧸", "꧹">>,
       <<"꯰", "꯱", "꯲", "꯳", "꯴", "꯵", "꯶", "꯷", "꯸", "꯹">>
    >>

DecDigits == {DigitRuns[r][k] : r \in 1..Len(DigitRuns), k \in 1..10}

\* the value of a decimal digit: its place in its run
DecDigit ==
    [c \in DecDigits |->
        CHOOSE v \in 0..9 : \E r \in 1..Len(DigitRuns) : DigitRuns[r][v + 1] = c]

\* the value of a digit of int(tok, 16): a decimal digit of any script, or
\* one of the ASCII letters a-f, A-F
HexDigit ==
    DecDigit
    @@ ("a" :> 10) @@ ("b" :> 11) @@ ("c" :> 12) @@ ("d" :> 13)
    @@ ("e" :> 14) @@ ("f" :> 15) @@ ("A" :> 10) @@ ("B" :> 11)
    @@ ("C" :> 12) @@ ("D" :> 13) @@ ("E" :> 14) @@ ("F" :> 15)

RECURSIVE DigitsVal(_, _)
\* the value of a string of digits in the base
DigitsVal(s, base) ==
    IF s = << >> THEN 0
    ELSE DigitsVal(SubSeq(s, 1, Len(s) - 1), base) * base + HexDigit[s[Len(s)]]

\* str.strip()
strip(s) == lstrip(rstrip(s))

Unsigned(tok) == IF tok # << >> /\ Head(tok) \in {"-", "+"} THEN Tail(tok) ELSE tok

\* the digits of a literal of int(): one or more digits of the base, with
\* single underscores allowed between two digits
DigitGroups(s, digits) ==
    /\ s # << >>
    /\ s[1] \in digits
    /\ s[Len(s)] \in digits
    /\ \A k \in 1..Len(s) :
          \/ s[k] \in digits
          \/ s[k] = "_" /\ s[k - 1] # "_"

\* the literal without its underscores
Digits(s) == SelectSeq(s, LAMBDA c : c # "_")

\* the whitespace int() drops around a number: every character of
\* Whitespace but U+001C, U+001D, U+001E and U+001F
IntSpace == Whitespace \ {"", "", "", ""}

RECURSIVE IntTrimLeft(_)
IntTrimLeft(s) ==
    IF s # << >> /\ Head(s) \in IntSpace THEN IntTrimLeft(Tail(s)) ELSE s

RECURSIVE IntTrimRight(_)
IntTrimRight(s) ==
    IF s # << >> /\ s[Len(s)] \in IntSpace
    THEN IntTrimRight(SubSeq(s, 1, Len(s) - 1)) ELSE s

\* the literal int() parses
IntTrim(s) == IntTrimLeft(IntTrimRight(s))

\* int(tok) does not raise ValueError: whitespace around the number is
\* dropped, then an optional sign and the digits
IsInt(tok) == DigitGroups(Unsigned(IntTrim(tok)), DecDigits)

\* int(tok)
IntVal(tok) ==
    LET t == IntTrim(tok)
    IN  IF t # << >> /\ Head(t) = "-" THEN 0 - DigitsVal(Digits(Unsigned(t)), 10)
        ELSE DigitsVal(Digits(Unsigned(t)), 10)

RECURSIVE FirstField(_)
\* line.split(' ', 1)[0]: the characters before the first space
FirstField(line) ==
    IF line = << >> \/ Head(line) = " " THEN << >>
    ELSE <<Head(line)>> \o FirstField(Tail(line))

\* re.search('^0x', tok, re.IGNORECASE) is not None
HexMatch(tok) == Len(tok) >= 2 /\ tok[1] = "0" /\ tok[2] \in {"x", "X"}

\* what follows the prefix 0x of a token that starts with it: whitespace at
\* the end is dropped, and one underscore may follow the prefix
HexBody(tok) ==
    LET t == IntTrim(tok)
        b == SubSeq(t, 3, Len(t))
    IN  IF b # << >> /\ Head(b) = "_" THEN Tail(b) ELSE b

\* int(tok, 16) of a token that starts with 0x does not raise ValueError
IsHex(tok) == DigitGroups(HexBody(tok), DOMAIN HexDigit)

\* int(tok, 16)
HexVal(tok) == DigitsVal(Digits(HexBody(tok)), 16)

\* the smushMode loadFont takes for a font with the old layout only
OldLayoutMode_Mask63(oldLayout) ==
    IF oldLayout = 0 THEN 64
    ELSE IF oldLayout < 0 THEN 0
    ELSE BitOr(BitAnd(oldLayout, 63), 128)

\* loadFont: "convert old layout style"
OldLayoutMode(oldLayout) ==
    IF oldLayout = 0 THEN 64
    ELSE IF oldLayout < 0 THEN 0
    ELSE BitOr(BitAnd(oldLayout, 31), 128)

\* loadFont: fullLayout, << >> when the header has no 8th token
ResolveLayout(oldLayout, fullLayout) ==
    IF fullLayout = << >> THEN OldLayoutMode(oldLayout) ELSE fullLayout[1]

\* loadFont up to the header's fields: the cause of the exception, or None
HeaderError(d) ==
    IF d = << >> THEN "IndexError"
    ELSE IF ~reMagicNumber(Head(d)) THEN "not a valid figlet font"
    ELSE LET h == split(StripMagic(Head(d)))
         IN  IF Len(h) < 6 THEN "malformed header"
             ELSE IF \E k \in 2..6 : ~IsInt(h[k]) THEN "ValueError"
             ELSE IF Len(h) > 6 /\ ~IsInt(h[7]) THEN "ValueError"
             ELSE IF Len(h) > 7 /\ ~IsInt(h[8]) THEN "ValueError"
             ELSE None

\* reEndMarker.search(line).group(1): the last character that only
\* whitespace follows, "" when the line is empty (search gives None)
EndMarker(line) ==
    IF line = << >> THEN ""
    ELSE IF rstrip(line) = << >> THEN Head(line)
    ELSE Last(rstrip(line))

\* end.sub('', line): one or two end marks are cut from the end of the line
StripEnd(line, endc) ==
    IF line # << >> /\ Last(line) = endc
    THEN IF Len(line) >= 2 /\ line[Len(line) - 1] = endc
         THEN SubSeq(line, 1, Len(line) - 2)
         ELSE SubSeq(line, 1, Len(line) - 1)
    ELSE line

RECURSIVE CharRows_StopsAtEnd(_, _, _, _, _)
\* the rows that are there are taken when the data runs out
CharRows_StopsAtEnd(d, j, height, endc, chars) ==
    IF j >= height \/ d = << >>
    THEN [err |-> None, width |-> GlyphWidth(chars), chars |-> chars, rest |-> d]
    ELSE LET e == IF endc = "" THEN EndMarker(Head(d)) ELSE endc
         IN  IF e = ""
             THEN [err |-> "AttributeError", width |-> 0, chars |-> chars,
                   rest |-> d]
             ELSE CharRows_StopsAtEnd(Tail(d), j + 1, height, e,
                                      Append(chars, StripEnd(Head(d), e)))

RECURSIVE CharRows(_, _, _, _, _)
\* loadFont's __char(data), from row j on: data.pop(0) raises IndexError on
\* an empty list, reEndMarker.search(line).group raises AttributeError on an
\* empty first line
CharRows(d, j, height, endc, chars) ==
    IF j >= height
    THEN [err |-> None, width |-> GlyphWidth(chars), chars |-> chars, rest |-> d]
    ELSE IF d = << >>
    THEN [err |-> "IndexError", width |-> 0, chars |-> chars, rest |-> d]
    ELSE LET e == IF endc = "" THEN EndMarker(Head(d)) ELSE endc
         IN  IF e = ""
             THEN [err |-> "AttributeError", width |-> 0, chars |-> chars,
                   rest |-> d]
             ELSE CharRows(Tail(d), j + 1, height, e,
                           Append(chars, StripEnd(Head(d), e)))

\* ''.join(letter) != ''
NonEmptyGlyph(letter) == \E r \in 1..Len(letter) : letter[r] # << >>

\* self.chars[code] = letter; self.width[code] = width
StoreGlyph(s, code, g) ==
    [s EXCEPT !.chars = (code :> g.chars) @@ s.chars,
              !.width = (code :> g.width) @@ s.width]


\* ------------------------------------------------------------------------
\* Font files the model draws from
\* ------------------------------------------------------------------------
MaxHeight == 2
MaxComment == 2

\* range(32, 127): the ASCII glyphs every font file starts with
FirstChar == 32
EndChar == 127

RECURSIVE Str(_)
\* the decimal digits of n >= 0
Str(n) ==
    IF n < 10 THEN <<SubSeq(<<"0", "1", "2", "3", "4", "5", "6", "7", "8", "9">>,
                            n + 1, n + 1)[1]>>
    ELSE Str(n \div 10) \o Str(n % 10)

\* a header token that int() takes
IntTok(n) == IF n < 0 THEN <<"-">> \o Str(0 - n) ELSE Str(n)

RECURSIVE Fields(_)
\* " " + tok for every token
Fields(toks) ==
    IF toks = << >> THEN << >> ELSE <<" ">> \o Head(toks) \o Fields(Tail(toks))

Magics == {<<"f", "l", "f", "2">>, <<"t", "l", "f", "2">>, <<"x", "l", "f", "2">>}

\* what stands between the magic token and the hard blank: "a" in the files
\* of FIGlet, nothing when the hard blank follows the token at once
Signatures == {<<"a">>, << >>}

HardBlanks == {<<"$">>, <<"$", "$">>}

OldLayouts == {-2, -1, 0, 1, 5, 15, 31, 32, 63, 64, 255}

\* the optional header fields: printDirection, fullLayout
Optionals ==
    {<< >>, <<IntTok(0)>>, <<IntTok(1)>>, <<IntTok(0), IntTok(0)>>,
     <<IntTok(1), IntTok(64)>>, <<IntTok(0), IntTok(191)>>}

\* a row of the glyph of code, before its end mark; every third glyph is empty
GlyphRow(code) ==
    IF code % 3 = 0 THEN << >>
    ELSE IF code % 3 = 1 THEN <<"X">>
    ELSE <<"$", "X", " ">>

\* the lines of one glyph: "@" ends a row, "@@" the last one
GlyphLines(code, height) ==
    [j \in 1..height |->
        GlyphRow(code) \o (IF j = height THEN <<"@", "@">> ELSE <<"@">>)]

RECURSIVE AsciiLines(_, _)
\* the lines of the glyphs code .. 126
AsciiLines(code, height) ==
    IF code >= EndChar THEN << >>
    ELSE GlyphLines(code, height) \o AsciiLines(code + 1, height)

CommentBlock(n) == [k \in 1..n |-> <<"c">>]

\* what may follow the ASCII glyphs: nothing, a glyph tagged in hexadecimal,
\* that glyph without its last row, a tag that is not hexadecimal with its
\* rows, an empty line, a tag int(i, 16) does not take, a tag with an
\* underscore between its digits and a tab after them, a tag that ends in an
\* underscore, a tag that U+00A0 follows (int() drops it), a tag that U+001F
\* follows (int() does not), a tag whose digit is U+06F1 (code 1), a tag whose
\* digits are U+0BEA and U+0BE7 (code 65: the glyph takes the place of 'A')
Extensions(height) ==
    { << >>,
      <<<<"0", "x", "C", "4", " ", "A">>>> \o GlyphLines(196, height),
      <<<<"0", "x", "C", "4", " ", "A">>>> \o GlyphLines(196, height - 1),
      <<<<"1", "9", "6", " ", "A">>>> \o GlyphLines(196, height),
      << << >>, <<"0", "X", "4", "1">> >> \o GlyphLines(196, height),
      <<<<"0", "x", "Z">>>> \o GlyphLines(196, height),
      <<<<"0", "x", "4", "_", "1", "\t", " ", "A">>>> \o GlyphLines(196, height),
      <<<<"0", "x", "4", "1", "_", " ", "A">>>> \o GlyphLines(196, height),
      <<<<"0", "x", "4", "1", " ", " ", "A">>>> \o GlyphLines(196, height),
      <<<<"0", "x", "4", "1", "", " ", "A">>>> \o GlyphLines(196, height),
      <<<<"0", "x", "۱">>>> \o GlyphLines(196, height),
      <<<<"0", "x", "௪", "௧", " ", "A">>>> \o GlyphLines(196, height) }

HeaderLine(magic, sig, hb, h, ol, cl, opt) ==
    magic \o sig \o hb
    \o Fields(<<IntTok(h), IntTok(1), IntTok(4), IntTok(ol), IntTok(cl)>> \o opt)

\* a font file: header, comments, the first n lines of the ASCII glyphs and
\* what follows them
FontFile(hdr, comments, h, n, ext) ==
    <<hdr>> \o CommentBlock(comments) \o SubSeq(AsciiLines(FirstChar, h), 1, n) \o ext

AsciiCount(h) == (EndChar - FirstChar) * h

\* files that differ in the header
HeaderFiles ==
    { FontFile(HeaderLine(m, sg, hb, 1, ol, 1, opt), 1, 1, AsciiCount(1), << >>) :
      m \in Magics, sg \in Signatures, hb \in HardBlanks,
      ol \in OldLayouts, opt \in Optionals }

\* files whose header has integer fields with an underscore between digits
UnderscoreHeaderFiles ==
    { FontFile(<<"f", "l", "f", "2", "a">> \o Fields(toks), 0, 1, AsciiCount(1), << >>) :
      toks \in
        { <<<<"$">>, IntTok(1), IntTok(1), IntTok(4), <<"1", "_", "5">>, IntTok(0)>>,
          <<<<"$">>, IntTok(1), IntTok(1), IntTok(4), IntTok(0), IntTok(0),
            IntTok(0), <<"1", "_", "0">>>>,
          <<<<"$">>, <<"+", "1">>, IntTok(1), IntTok(4), IntTok(0), <<"0", "_", "0">>>> } }

\* a file whose header has U+00A0 and U+001F between fields
WideBlankHeaderFiles ==
    { FontFile(<<"f", "l", "f", "2", "a", "$", " ", "1", " ", "1", "", "4",
                 " ", "5", " ", "0">>, 0, 1, AsciiCount(1), << >>) }

\* files whose header has integer fields in digits that are not ASCII: the
\* height U+06F1 (1), the oldLayout U+06F1 U+06F5 (15), the oldLayout "1" and
\* U+0BEB (15), the oldLayout -U+0BE7 (-1), the fullLayout U+06F6 U+06F4 (64)
DigitHeaderFiles ==
    { FontFile(<<"f", "l", "f", "2", "a">> \o Fields(toks), 0, 1, AsciiCount(1), << >>) :
      toks \in
        { <<<<"$">>, <<"۱">>, IntTok(1), IntTok(4), IntTok(0), IntTok(0)>>,
          <<<<"$">>, IntTok(1), IntTok(1), IntTok(4), <<"۱", "۵">>, IntTok(0)>>,
          <<<<"$">>, IntTok(1), IntTok(1), IntTok(4), <<"1", "௫">>, IntTok(0)>>,
          <<<<"$">>, IntTok(1), IntTok(1), IntTok(4), <<"-", "௧">>, IntTok(0)>>,
          <<<<"$">>, IntTok(1), IntTok(1), IntTok(4), IntTok(0), IntTok(0),
            IntTok(0), <<"۶", "۴">>>> } }

\* files whose header is short or holds a token that is no integer
BadHeaderFiles ==
    { FontFile(<<"f", "l", "f", "2", "a">> \o Fields(toks), 0, 1, AsciiCount(1), << >>) :
      toks \in
        { <<<<"$">>, IntTok(1), IntTok(1), IntTok(4), IntTok(0)>>,
          <<<<"$">>, <<"x">>, IntTok(1), IntTok(4), IntTok(0), IntTok(0)>>,
          <<<<"$">>, IntTok(1), IntTok(1), IntTok(4), <<"1", "x">>, IntTok(0)>>,
          <<<<"$">>, IntTok(1), IntTok(1), IntTok(4), IntTok(0), <<"-">>>>,
          <<<<"$">>, IntTok(1), IntTok(1), IntTok(4), <<"1", "_", "_", "5">>, IntTok(0)>>,
          <<<<"$">>, IntTok(1), IntTok(1), IntTok(4), <<"_", "5">>, IntTok(0)>>,
          <<<<"$">>, IntTok(1), IntTok(1), IntTok(4), IntTok(0), IntTok(0), <<"x">>>>,
          <<<<"$">>, IntTok(1), IntTok(1), IntTok(4), IntTok(0), IntTok(0),
            IntTok(0), <<"x">>>>,
          <<<<"$">>, IntTok(1), IntTok(1), IntTok(4), IntTok(0), IntTok(0),
            IntTok(0), IntTok(0), <<"x">>>> } }

\* files that differ in what follows the header
BodyFilesOf(h, cl) ==
    { FontFile(HeaderLine(<<"f", "l", "f", "2">>, <<"a">>, <<"$">>, h, 0, cl, << >>),
               n, h, k, ext) :
      n \in {cl - 1, cl}, k \in {0, AsciiCount(h) - 1, AsciiCount(h)},
      ext \in Extensions(h) }

BodyFiles == UNION {BodyFilesOf(h, cl) : h \in 0..MaxHeight, cl \in 0..MaxComment}

FontFiles ==
    {<< >>} \cup HeaderFiles \cup UnderscoreHeaderFiles \cup WideBlankHeaderFiles
    \cup DigitHeaderFiles \cup BadHeaderFiles
    \cup BodyFiles


\* ------------------------------------------------------------------------
\* FigletFont(font, **kwargs), step by step
\* ------------------------------------------------------------------------
\* Figlet.Font before setFont has assigned it
NoFont == [none |-> TRUE]

\* Figlet.__init__ is about to call setFont
InitLoad ==
    /\ Font = NoFont
    /\ _direction = "auto"
    /\ _justify = "auto"
    /\ width = 80
    /\ text = << >>
    /\ pos = 0
    /\ buffer = << >>
    /\ prevCharWidth = 0
    /\ curCharWidth = 0
    /\ out = << >>
    /\ pc = "idle"
    /\ found \in BOOLEAN
    /\ file \in FontFiles
    /\ kwargs \in {<< >>, <<0>>, <<191>>}
    /\ self = NewSelf
    /\ data = << >>
    /\ header = << >>
    /\ commentLines = 0
    /\ ichar = 0
    /\ cause = None
    /\ lpc = "new"
    /\ call = NoCall
    /\ renders = NoRenders
    /\ fstring = NoString

\* FigletFont.__init__: preloadFont
Preload ==
    /\ lpc = "new"
    /\ IF found
       THEN /\ data' = file
            /\ lpc' = "loadFont"
       ELSE /\ lpc' = "FontNotFound"
            /\ UNCHANGED data
    /\ UNCHANGED <<ovars, Font, rvars, found, file, kwargs, self, header, commentLines,
                   ichar, cause>>

\* where loadFont goes on after i comment lines
AfterComments(n, done) == IF done < n THEN "comments" ELSE "ascii"

\* loadFont: the header
ParseHeader ==
    /\ lpc = "loadFont"
    /\ IF HeaderError(data) # None
       THEN /\ lpc' = "FontError"
            /\ cause' = HeaderError(data)
            /\ data' = IF data = << >> THEN data ELSE Tail(data)
            /\ UNCHANGED <<self, header, commentLines, ichar>>
       ELSE LET h == split(StripMagic(Head(data)))
                fullLayout == IF Len(h) > 7 THEN <<IntVal(h[8])>> ELSE << >>
            IN  /\ header' = h
                /\ self' = [self EXCEPT
                              !.height = <<IntVal(h[2])>>,
                              !.hardBlank = h[1],
                              !.printDirection =
                                  IF Len(h) > 6 THEN <<IntVal(h[7])>> ELSE << >>,
                              !.smushMode =
                                  <<ResolveLayout(IntVal(h[5]), fullLayout)>>]
                /\ commentLines' = IntVal(h[6])
                /\ data' = Tail(data)
                /\ ichar' = IF AfterComments(IntVal(h[6]), 0) = "ascii"
                            THEN FirstChar ELSE 0
                /\ lpc' = AfterComments(IntVal(h[6]), 0)
                /\ UNCHANGED cause
    /\ UNCHANGED <<ovars, Font, rvars, found, file, kwargs>>

\* loadFont: one comment line
StripComment ==
    /\ lpc = "comments"
    /\ IF data = << >>
       THEN /\ lpc' = "FontError"
            /\ cause' = "IndexError"
            /\ UNCHANGED <<self, data, ichar>>
       ELSE /\ self' = [self EXCEPT !.comment = @ \o Head(data)]
            /\ data' = Tail(data)
            /\ lpc' = AfterComments(commentLines, ichar + 1)
            /\ ichar' = IF AfterComments(commentLines, ichar + 1) = "ascii"
                        THEN FirstChar ELSE ichar + 1
            /\ UNCHANGED cause
    /\ UNCHANGED <<ovars, Font, rvars, found, file, kwargs, header, commentLines>>

\* loadFont: one glyph of the ASCII range
LoadAsciiChar ==
    /\ lpc = "ascii"
    /\ LET g == CharRows(data, 0, self.height[1], "", << >>)
       IN  IF g.err # None
           THEN /\ lpc' = "FontError"
                /\ cause' = g.err
                /\ UNCHANGED <<self, data, ichar>>
           ELSE /\ self' = IF NonEmptyGlyph(g.chars)
                           THEN StoreGlyph(self, ichar, g) ELSE self
                /\ data' = g.rest
                /\ ichar' = ichar + 1
                /\ lpc' = IF ichar + 1 < EndChar THEN "ascii" ELSE "extended"
                /\ UNCHANGED cause
    /\ UNCHANGED <<ovars, Font, rvars, found, file, kwargs, header, commentLines>>

\* loadFont: one line after the ASCII range, with the glyph it tags
LoadExtended ==
    /\ lpc = "extended"
    /\ data # << >>
    /\ LET line == strip(Head(data))
           tok == FirstField(line)
           g == CharRows(Tail(data), 0, self.height[1], "", << >>)
       IN  IF tok = << >> \/ ~HexMatch(tok)
           THEN /\ data' = Tail(data)
                /\ UNCHANGED <<self, ichar, cause, lpc>>
           ELSE IF ~IsHex(tok)
           THEN /\ lpc' = "FontError"
                /\ cause' = "ValueError"
                /\ data' = Tail(data)
                /\ UNCHANGED <<self, ichar>>
           ELSE IF g.err # None
           THEN /\ lpc' = "FontError"
                /\ cause' = g.err
                /\ data' = Tail(data)
                /\ ichar' = HexVal(tok)
                /\ UNCHANGED self
           ELSE /\ self' = IF NonEmptyGlyph(g.chars)
                           THEN StoreGlyph(self, HexVal(tok), g) ELSE self
                /\ data' = g.rest
                /\ ichar' = HexVal(tok)
                /\ UNCHANGED <<cause, lpc>>
    /\ UNCHANGED <<ovars, Font, rvars, found, file, kwargs, header, commentLines>>

\* loadFont returns; __init__ replaces the font's smushMode by the one of
\* kwargs; setFont assigns that FigletFont to Figlet.Font
Construct ==
    /\ lpc = "extended"
    /\ data = << >>
    /\ self' = [self EXCEPT
                  !.smushMode = IF kwargs # << >> THEN <<kwargs[1]>> ELSE @]
    /\ Font' = [height |-> self'.height[1],
                hardBlank |-> self'.hardBlank,
                printDirection |-> self'.printDirection,
                smushMode |-> self'.smushMode[1],
                chars |-> self'.chars,
                width |-> self'.width]
    /\ lpc' = "loaded"
    /\ UNCHANGED <<ovars, rvars, found, file, kwargs, data, header, commentLines,
                   ichar, cause>>

NextLoad ==
    Preload \/ ParseHeader \/ StripComment \/ LoadAsciiChar \/ LoadExtended
    \/ Construct

SpecLoad == InitLoad /\ [][NextLoad]_vars

\* ------------------------------------------------------------------------
\* Properties of the loader
\* ------------------------------------------------------------------------
HeaderParsed == header # << >>
Loaded == lpc = "loaded"

\* the header's oldLayout, and whether it carries fullLayout
HeaderOldLayout == IntVal(header[5])
HasFullLayout == Len(header) > 7

\* m is the smushMode the header gives: fullLayout when there is an 8th
\* token; with no fullLayout 64 for oldLayout = 0, 0 for oldLayout < 0 and
\* (oldLayout & 31) | 128 for oldLayout > 0, which never has bit 32 set and
\* never has both KERN and SMUSH
HeaderSmushMode(m) ==
    /\ HasFullLayout => m = IntVal(header[8])
    /\ ~HasFullLayout =>
          /\ HeaderOldLayout = 0 => m = 64
          /\ HeaderOldLayout < 0 => m = 0
          /\ HeaderOldLayout > 0 => m = (HeaderOldLayout % 32) + 128
          /\ (m \div 32) % 2 = 0
          /\ ~((m \div 64) % 2 = 1 /\ (m \div 128) % 2 = 1)

\* C8 as claimed: the smushMode of every font that is loaded is the one its
\* header gives.
C8_SmushModeFromHeader == Loaded => HeaderSmushMode(Font.smushMode)

\* C8, amended: loadFont leaves the smushMode the header gives; a font built
\* without the smushMode keyword is returned with it; a font built with the
\* keyword is returned with the keyword's value, whatever its header gives.
C8_SmushModeResolution ==
    /\ HeaderParsed /\ ~Loaded => HeaderSmushMode(self.smushMode[1])
    /\ Loaded => Font.smushMode = self.smushMode[1]
    /\ Loaded /\ kwargs = << >> => HeaderSmushMode(Font.smushMode)
    /\ Loaded /\ kwargs # << >> => Font.smushMode = kwargs[1]

\* a font whose header has oldLayout 5 and no fullLayout is loaded with 133
C8_Witness ==
    /\ Loaded
    /\ kwargs = << >>
    /\ ~HasFullLayout
    /\ HeaderOldLayout = 5
    /\ Font.smushMode = 133

MagicTokens == {<<"f", "l", "f", "2">>, <<"t", "l", "f", "2">>}

\* the first line is the magic token, the hard-blank character at once after
\* it, and then 5 to 7 integer fields
MagicThenHardBlank(line) ==
    /\ Len(line) >= 6
    /\ SubSeq(line, 1, 4) \in MagicTokens
    /\ ~isspace(line[5])
    /\ line[6] = " "
    /\ LET fields == split(SubSeq(line, 6, Len(line)))
       IN  /\ Len(fields) \in 5..7
           /\ \A k \in 1..Len(fields) : IsInt(fields[k])

\* loadFont raised before it had the header's fields
HeaderRejected == lpc = "FontError" /\ ~HeaderParsed

\* C9: a first line of the magic token, the hard-blank character and the
\* integer fields is accepted, the loaded font's hardBlank is the character
\* that follows the magic token, and every loaded font's hardBlank is one
\* character that is not a space.
C9_HardBlankFollowsMagic ==
    /\ found /\ file # << >> /\ MagicThenHardBlank(file[1]) => ~HeaderRejected
    /\ Loaded /\ MagicThenHardBlank(file[1]) => Font.hardBlank = <<file[1][5]>>
    /\ Loaded => Len(Font.hardBlank) = 1 /\ Font.hardBlank # <<" ">>

\* the header fields loadFont reads, as the header line gives them
HeaderTokens(line) == split(SubSeq(line, 6, Len(line)))
HeaderInt(line, k) == IntVal(HeaderTokens(line)[k])

\* the first line does not match, has fewer than 6 tokens or has a field
\* that is no integer
BadHeader(line) ==
    \/ Len(line) < 5
    \/ SubSeq(line, 1, 4) \notin MagicTokens
    \/ Len(HeaderTokens(line)) < 6
    \/ \E k \in 2..Len(HeaderTokens(line)) :
          k <= 8 /\ ~IsInt(HeaderTokens(line)[k])

RECURSIVE ExtendedRunsOut(_, _)
\* the lines after the ASCII glyphs end in the middle of a tagged glyph
ExtendedRunsOut(d, height) ==
    /\ d # << >>
    /\ IF HexMatch(FirstField(strip(Head(d))))
       THEN \/ Len(d) - 1 < height
            \/ ExtendedRunsOut(SubSeq(d, height + 2, Len(d)), height)
       ELSE ExtendedRunsOut(Tail(d), height)

\* the text after a good header has fewer lines than the header's
\* commentLines, or then fewer than 95 * height, or runs out in the middle
\* of an extended glyph
BodyRunsOut(f) ==
    LET height == Max(HeaderInt(f[1], 2), 0)
        comments == Max(HeaderInt(f[1], 6), 0)
        glyphs == (EndChar - FirstChar) * height
    IN  \/ Len(f) - 1 < comments
        \/ Len(f) - 1 - comments < glyphs
        \/ ExtendedRunsOut(SubSeq(f, 2 + comments + glyphs, Len(f)), height)

Malformed(f) == f = << >> \/ BadHeader(f[1]) \/ BodyRunsOut(f)

\* FigletFont(...) has returned or raised
Ended == lpc \in {"loaded", "FontNotFound", "FontError"}

\* what bounds the steps loading has left: the stage, and within a stage the
\* lines left (every comment and every step of the last loop pops one) or
\* the glyphs left of range(32, 127)
StepsLeft ==
    LET K == Len(file) + EndChar + 1
    IN  CASE lpc = "new" -> 5 * K
          [] lpc = "loadFont" -> 4 * K
          [] lpc = "comments" -> 3 * K + Len(data)
          [] lpc = "ascii" -> 2 * K + (EndChar - ichar)
          [] lpc = "extended" -> K + Len(data)
          [] OTHER -> 0

\* C10: when the text that was found is malformed (bad magic token, fewer
\* than 6 header tokens, a header field that is no integer, fewer lines
\* than commentLines, lines running out before the 95 ASCII glyphs or in the
\* middle of an extended glyph), loading never ends in FontNotFound, never
\* returns, and never hands a font to the caller: the one way it can end is
\* FontError; and it does end, as every step brings the end nearer.
C10_ParseFailureTotal ==
    /\ [](found /\ Malformed(file) =>
             /\ lpc \notin {"loaded", "FontNotFound"}
             /\ Ended => lpc = "FontError"
             /\ Font = NoFont)
    /\ [][StepsLeft' < StepsLeft /\ StepsLeft' >= 0]_vars

\* the text ran out after glyphs had been stored: FontError, and no font
C10_Witness ==
    /\ found
    /\ file # << >>
    /\ ~BadHeader(file[1])
    /\ BodyRunsOut(file)
    /\ lpc = "FontError"
    /\ cause = "IndexError"
    /\ self.chars # << >>
    /\ Font = NoFont


\* ------------------------------------------------------------------------
\* Two calls of render on one engine
\* ------------------------------------------------------------------------
\* text, buffer, maxSmush and the loop variables are locals of a call;
\* prevCharWidth and curCharWidth are attributes of the engine
\* (self.prevCharWidth, self.curCharWidth), so the calls read and write the
\* same pair, with no lock.  A step of a call is what it does up to and with
\* one read or one write of an attribute of the engine: the other call can
\* run between any two of them.
MaxConcLen == 2

ConcTexts == UNION {[1..n -> TextChars] : n \in 0..MaxConcLen}

ConcGlyphSets ==
    { (65 :> << <<"X">> >>) @@ (66 :> << <<"X", "X">> >>),
      (65 :> << <<"A", "X">> >>) @@ (66 :> << <<"X", "B">> >>) }

ConcModes == {128, 129}

\* Figlet.__init__ has run; neither call has started
InitConc ==
    /\ Init
    /\ Font.chars \in ConcGlyphSets
    /\ Font.smushMode \in ConcModes
    /\ Font.printDirection = << >>
    /\ _direction \in {"left-to-right", "right-to-left"}
    /\ _justify = "auto"
    /\ width = 10

\* curChar of the pass the call is in
CurChar(c) == Font.chars[c.text[c.pos + 1]]

\* buffer[row] and curChar[row], swapped for right-to-left: lineLeft and
\* lineRight of smushAmount, addLeft and addRight of render
RowLeft(c, row) ==
    IF direction = "right-to-left" THEN CurChar(c)[row] ELSE c.buffer[row]
RowRight(c, row) ==
    IF direction = "right-to-left" THEN c.buffer[row] ELSE CurChar(c)[row]

\* smushAmount's ch1: the last character of lineLeft that is no whitespace
Ch1(lineLeft) ==
    LET bd0 == Len(rstrip(lineLeft)) - 1
        bd1 == IF bd0 < 0 THEN 0 ELSE bd0
    IN  IF bd1 < Len(lineLeft) THEN lineLeft[bd1 + 1] ELSE ""

\* smushAmount's ch2: the first character of lineRight that is no whitespace
Ch2(lineRight) ==
    LET cb0 == Len(lineRight) - Len(lstrip(lineRight))
    IN  IF cb0 < Len(lineRight) THEN lineRight[cb0 + 1] ELSE ""

\* smushChars(left, right) gets past its two tests of isspace and reads
\* self.prevCharWidth
ReadsWidths(left, right) == ~isspace(left) /\ ~isspace(right)

\* smushAmount calls smushChars for the row and the call reads the widths
AmountReadsWidths(lineLeft, lineRight) ==
    /\ Ch1(lineLeft) \notin {"", " "}
    /\ Ch2(lineRight) # ""
    /\ ReadsWidths(Ch1(lineLeft), Ch2(lineRight))

\* render goes to its loop over the rows, at row, or past it
StartMerge(c, row) ==
    IF row > Font.height THEN [c EXCEPT !.pc = "merged"]
    ELSE [c EXCEPT !.pc = "merge", !.row = row, !.i = 0,
                   !.addLeft = RowLeft(c, row)]

\* smushAmount goes to its row, or returns maxSmush to render
StartAmount(c, row) ==
    IF row > Font.height THEN StartMerge(c, 1)
    ELSE [c EXCEPT !.pc = "amount", !.row = row]

\* smushAmount has the row's amt: "if amt < maxSmush"
AmountDone(c, amt) ==
    StartAmount([c EXCEPT !.maxSmush = IF amt < @ THEN amt ELSE @], c.row + 1)

\* render's idx and left for addLeft and i
MergeIdx(c) == Len(c.addLeft) - c.maxSmush + c.i
MergeInRange(c) == MergeIdx(c) >= 0 /\ MergeIdx(c) < Len(c.addLeft)
MergeLeft(c) == IF MergeInRange(c) THEN c.addLeft[MergeIdx(c) + 1] ELSE ""
MergeRight(c) == RowRight(c, c.row)[c.i + 1]

\* render has smushed: l[idx] = smushed and ''.join(l), which raises
\* TypeError when smushed is None
MergeDone(c, smushed) ==
    IF MergeInRange(c) /\ smushed = None THEN [c EXCEPT !.pc = "TypeError"]
    ELSE [c EXCEPT !.pc = "merge", !.i = @ + 1,
                   !.addLeft = IF MergeInRange(c)
                               THEN [@ EXCEPT ![MergeIdx(c) + 1] = smushed]
                               ELSE @]

\* render(text) is entered: the first store of
\* "self.curCharWidth = self.prevCharWidth = 0"
Enter(t) ==
    /\ renders[t].pc = "idle"
    /\ \E txt \in ConcTexts :
          renders' = [renders EXCEPT ![t] = [@ EXCEPT !.pc = "entered", !.text = txt]]
    /\ curCharWidth' = 0
    /\ UNCHANGED <<Font, lvars, call, fstring, _direction, _justify, width, text,
                   pos, buffer, out, pc, prevCharWidth>>

\* the second store, and the buffer of height empty rows
ResetPrev(t) ==
    /\ renders[t].pc = "entered"
    /\ renders' = [renders EXCEPT ![t] =
                     [@ EXCEPT !.pc = "loop",
                               !.buffer = [r \in 1..Font.height |-> << >>]]]
    /\ prevCharWidth' = 0
    /\ UNCHANGED <<Font, lvars, call, fstring, _direction, _justify, width, text,
                   pos, buffer, out, pc, curCharWidth>>

\* a character the font has no glyph for: continue
Skip(t) ==
    /\ renders[t].pc = "loop"
    /\ renders[t].pos < Len(renders[t].text)
    /\ renders[t].text[renders[t].pos + 1] \notin DOMAIN Font.chars
    /\ renders' = [renders EXCEPT ![t] = [@ EXCEPT !.pos = @ + 1]]
    /\ UNCHANGED <<Font, lvars, rvars, call, fstring>>

\* a character of the font: "self.curCharWidth = self.base.Font.width[c]"
StoreCur(t) ==
    /\ renders[t].pc = "loop"
    /\ renders[t].pos < Len(renders[t].text)
    /\ renders[t].text[renders[t].pos + 1] \in DOMAIN Font.chars
    /\ renders' = [renders EXCEPT ![t] = [@ EXCEPT !.pc = "smushAmount"]]
    /\ curCharWidth' = Font.width[renders[t].text[renders[t].pos + 1]]
    /\ UNCHANGED <<Font, lvars, call, fstring, _direction, _justify, width, text,
                   pos, buffer, out, pc, prevCharWidth>>

\* smushAmount: 0 for a font that neither smushes nor kerns, else
\* "maxSmush = self.curCharWidth"
LoadMaxSmush(t) ==
    /\ renders[t].pc = "smushAmount"
    /\ renders' = [renders EXCEPT ![t] =
          IF BitAnd(Font.smushMode, BitOr(SM_SMUSH, SM_KERN)) = 0
          THEN StartMerge([@ EXCEPT !.maxSmush = 0], 1)
          ELSE StartAmount([@ EXCEPT !.maxSmush = curCharWidth], 1)]
    /\ UNCHANGED <<Font, lvars, rvars, call, fstring>>

\* smushAmount: one row, up to the read of self.prevCharWidth in smushChars;
\* the row is done when smushChars is not called, returns before the read,
\* or finds prevCharWidth < 2
AmountRow(t) ==
    /\ renders[t].pc = "amount"
    /\ LET c == renders[t]
           lineLeft == RowLeft(c, c.row)
           lineRight == RowRight(c, c.row)
       IN  renders' = [renders EXCEPT ![t] =
              IF AmountReadsWidths(lineLeft, lineRight) /\ prevCharWidth >= 2
              THEN [c EXCEPT !.pc = "amountCur", !.prevW = prevCharWidth]
              ELSE AmountDone(c, RowAmount(lineLeft, lineRight, prevCharWidth, 0,
                                           Font.smushMode, Font.hardBlank,
                                           direction))]
    /\ UNCHANGED <<Font, lvars, rvars, call, fstring>>

\* smushAmount: the read of self.curCharWidth in smushChars and the rest of
\* the row
AmountRowCur(t) ==
    /\ renders[t].pc = "amountCur"
    /\ LET c == renders[t]
       IN  renders' = [renders EXCEPT ![t] =
              AmountDone(c, RowAmount(RowLeft(c, c.row), RowRight(c, c.row),
                                      c.prevW, curCharWidth, Font.smushMode,
                                      Font.hardBlank, direction))]
    /\ UNCHANGED <<Font, lvars, rvars, call, fstring>>

\* render: "buffer[row] = addLeft + addRight[maxSmush:]" after the loop over i
MergeRowEnd(t) ==
    /\ renders[t].pc = "merge"
    /\ renders[t].i >= renders[t].maxSmush
    /\ LET c == renders[t]
           addRight == RowRight(c, c.row)
       IN  renders' = [renders EXCEPT ![t] =
              StartMerge([c EXCEPT !.buffer[c.row] =
                            c.addLeft \o SubSeq(addRight, c.maxSmush + 1,
                                                Len(addRight))],
                         c.row + 1)]
    /\ UNCHANGED <<Font, lvars, rvars, call, fstring>>

\* render: one i of the loop, up to the read of self.prevCharWidth in
\* smushChars; addRight[i] raises IndexError past the end of addRight
MergeCell(t) ==
    /\ renders[t].pc = "merge"
    /\ renders[t].i < renders[t].maxSmush
    /\ LET c == renders[t]
       IN  renders' = [renders EXCEPT ![t] =
              IF c.i >= Len(RowRight(c, c.row))
              THEN [c EXCEPT !.pc = "IndexError"]
              ELSE IF ReadsWidths(MergeLeft(c), MergeRight(c)) /\ prevCharWidth >= 2
              THEN [c EXCEPT !.pc = "mergeCur", !.prevW = prevCharWidth]
              ELSE MergeDone(c, smushChars(MergeLeft(c), MergeRight(c),
                                           prevCharWidth, 0, Font.smushMode,
                                           Font.hardBlank, direction))]
    /\ UNCHANGED <<Font, lvars, rvars, call, fstring>>

\* render: the read of self.curCharWidth in smushChars and the rest of the i
MergeCellCur(t) ==
    /\ renders[t].pc = "mergeCur"
    /\ LET c == renders[t]
       IN  renders' = [renders EXCEPT ![t] =
              MergeDone(c, smushChars(MergeLeft(c), MergeRight(c), c.prevW,
                                      curCharWidth, Font.smushMode,
                                      Font.hardBlank, direction))]
    /\ UNCHANGED <<Font, lvars, rvars, call, fstring>>

\* "self.prevCharWidth = self.curCharWidth": the read
LoadCur(t) ==
    /\ renders[t].pc = "merged"
    /\ renders' = [renders EXCEPT ![t] =
                     [@ EXCEPT !.pc = "storePrev", !.curW = curCharWidth]]
    /\ UNCHANGED <<Font, lvars, rvars, call, fstring>>

\* and the store; the pass is over
StorePrev(t) ==
    /\ renders[t].pc = "storePrev"
    /\ renders' = [renders EXCEPT ![t] = [@ EXCEPT !.pc = "loop", !.pos = @ + 1]]
    /\ prevCharWidth' = renders[t].curW
    /\ UNCHANGED <<Font, lvars, call, fstring, _direction, _justify, width, text,
                   pos, buffer, out, pc, curCharWidth>>

\* after the loop over the text: the rows are padded and joined, the hard
\* blanks replaced and the string returned
Finish(t) ==
    /\ renders[t].pc = "loop"
    /\ renders[t].pos = Len(renders[t].text)
    /\ LET c == renders[t]
           rows == [r \in 1..Font.height |->
                      JustifyPad(justify, width, Len(c.buffer[r])) \o c.buffer[r]]
       IN  renders' = [renders EXCEPT ![t] =
              [c EXCEPT !.pc = "done", !.buffer = rows,
                        !.out = ReplaceHardBlank(Join(rows), Font.hardBlank)]]
    /\ UNCHANGED <<Font, lvars, rvars, call, fstring>>

\* a step of the call t
RenderStep(t) ==
    \/ Enter(t)
    \/ ResetPrev(t)
    \/ Skip(t)
    \/ StoreCur(t)
    \/ LoadMaxSmush(t)
    \/ AmountRow(t)
    \/ AmountRowCur(t)
    \/ MergeRowEnd(t)
    \/ MergeCell(t)
    \/ MergeCellCur(t)
    \/ LoadCur(t)
    \/ StorePrev(t)
    \/ Finish(t)

NextConc == \E t \in Callers : RenderStep(t)

SpecConc == InitConc /\ [][NextConc]_vars

\* what render(t) returns when no other call runs
Alone(t) == RenderOf(SelectSeq(t, IsKnown))

\* the call has returned or raised
RenderEnded(c) == c.pc \in {"done", "TypeError", "IndexError"}

\* C11: of two calls of render that run on the same engine, each returns the
\* string it returns when it runs alone, whatever the order of their steps;
\* and render never writes the font.
C11_ConcurrentRendersIndependent ==
    /\ [](\A t \in Callers :
             RenderEnded(renders[t])
                => Alone(renders[t].text)
                      = [err |-> IF renders[t].pc = "done" THEN None
                                 ELSE renders[t].pc,
                         out |-> renders[t].out])
    /\ [][Font' = Font]_vars


\* ------------------------------------------------------------------------
\* smushChars on its own
\* ------------------------------------------------------------------------
\* smushChars(left, right) reads the engine's two widths, the font's
\* smushMode and hardBlank and the direction; it is called with every pair
\* of SmushInputs in every such setting.
SmushInputs ==
    {"|", "/", "\\", "[", "]", "{", "}", "(", ")", "<", ">", "_", "$", "a", " ", ""}

SmushModes == 0..255

SmushHardBlanks == {<<"$">>, <<"|">>}

SmushWidths == {1, 2}

SmushFonts ==
    { [height |-> 1, hardBlank |-> hb, printDirection |-> << >>, smushMode |-> m,
       chars |-> << >>, width |-> << >>] :
      hb \in SmushHardBlanks, m \in SmushModes }

\* a render has left the engine with its two widths
InitSmush ==
    /\ Font \in SmushFonts
    /\ _direction \in {"left-to-right", "right-to-left"}
    /\ _justify = "auto"
    /\ width = 80
    /\ text = << >>
    /\ pos = 0
    /\ buffer = << >>
    /\ prevCharWidth \in SmushWidths
    /\ curCharWidth \in SmushWidths
    /\ out = << >>
    /\ pc = "idle"
    /\ found = TRUE
    /\ file = << >>
    /\ kwargs = << >>
    /\ self = NewSelf
    /\ data = << >>
    /\ header = << >>
    /\ commentLines = 0
    /\ ichar = 0
    /\ cause = None
    /\ lpc = "loaded"
    /\ call = NoCall
    /\ renders = NoRenders
    /\ fstring = NoString

\* smushChars(left, right) is called and returns
SmushChars ==
    /\ call.pc = "idle"
    /\ \E l \in SmushInputs, r \in SmushInputs :
          call' = [pc |-> "returned", left |-> l, right |-> r,
                   smushed |-> smushChars(l, r, prevCharWidth, curCharWidth,
                                          Font.smushMode, Font.hardBlank,
                                          direction)]
    /\ UNCHANGED <<Font, rvars, lvars, renders, fstring>>

NextSmush == SmushChars

SpecSmush == InitSmush /\ [][NextSmush]_vars

\* ------------------------------------------------------------------------
\* Properties of smushChars
\* ------------------------------------------------------------------------
Returned == call.pc = "returned"
HasBit(mode, bit) == (mode \div bit) % 2 = 1
BothWide == prevCharWidth >= 2 /\ curCharWidth >= 2

\* the rank of a character's class in the hierarchy, 0 when it is in none
HierarchyClass(c) ==
    CASE c = "|" -> 1
      [] c \in {"/", "\\"} -> 2
      [] c \in {"[", "]"} -> 3
      [] c \in {"{", "}"} -> 4
      [] c \in {"(", ")"} -> 5
      [] c \in {"<", ">"} -> 6
      [] OTHER -> 0

\* the two characters are of two classes of the hierarchy
TwoClasses ==
    /\ HierarchyClass(call.left) # 0
    /\ HierarchyClass(call.right) # 0
    /\ HierarchyClass(call.left) # HierarchyClass(call.right)

\* the one of the class that comes first in the order, and the other one
OfFirstClass ==
    IF HierarchyClass(call.left) < HierarchyClass(call.right)
    THEN call.left ELSE call.right
OfLaterClass ==
    IF HierarchyClass(call.left) < HierarchyClass(call.right)
    THEN call.right ELSE call.left

HierarchyCase ==
    /\ Returned
    /\ HasBit(Font.smushMode, SM_SMUSH)
    /\ HasBit(Font.smushMode, SM_HIERARCHY)
    /\ BothWide
    /\ TwoClasses

\* C12 as claimed: with SMUSH and HIERARCHY and both widths >= 2, two
\* characters of two classes of the hierarchy merge to the one of the class
\* that comes first in the order | /\ [] {} () <>, on whichever side it is
\* (stated for characters that are not the font's hard blank).
C12_HierarchyDominantWins ==
    (/\ HierarchyCase
     /\ ~IsHardBlank(call.left, Font.hardBlank)
     /\ ~IsHardBlank(call.right, Font.hardBlank))
    => call.smushed = OfFirstClass

\* C12, amended: with SMUSH and HIERARCHY and both widths >= 2, two
\* characters of two classes of the hierarchy, neither of them the hard
\* blank, merge to the one of the class that comes later in the order, on
\* whichever side it is: "|" against "/" gives "/", "[" against "(" gives "(".
C12_HierarchyLaterClassWins ==
    (/\ HierarchyCase
     /\ ~IsHardBlank(call.left, Font.hardBlank)
     /\ ~IsHardBlank(call.right, Font.hardBlank))
    => /\ call.smushed = OfLaterClass
       /\ (call.left = "|" /\ call.right = "/") => call.smushed = "/"
       /\ (call.left = "(" /\ call.right = "[") => call.smushed = "("

\* "(" on the left against "[" with SMUSH|HIERARCHY gives "("
C12_Witness ==
    /\ HierarchyCase
    /\ Font.smushMode = 132
    /\ Font.hardBlank = <<"$">>
    /\ call.left = "("
    /\ call.right = "["
    /\ call.smushed = "("

\* a character that shows: not '', not whitespace, not the hard blank
Visible(c) == c # "" /\ ~isspace(c) /\ ~IsHardBlank(c, Font.hardBlank)

\* C13: with SMUSH, without EQUAL and with one of LOWLINE, HIERARCHY, PAIR,
\* BIGX, HARDBLANK, two identical visible characters of glyphs at least 2
\* wide do not merge.
C13_IdenticalMergeOnlyByEqual ==
    (/\ Returned
     /\ HasBit(Font.smushMode, SM_SMUSH)
     /\ ~HasBit(Font.smushMode, SM_EQUAL)
     /\ Font.smushMode % 64 # 0
     /\ BothWide
     /\ call.left = call.right
     /\ Visible(call.left))
    => call.smushed = None

UniversalCase ==
    /\ Returned
    /\ HasBit(Font.smushMode, SM_SMUSH)
    /\ Font.smushMode % 64 = 0
    /\ BothWide
    /\ call.left # "" /\ ~isspace(call.left)
    /\ call.right # "" /\ ~isspace(call.right)

ExactlyOneHardBlank ==
    IsHardBlank(call.left, Font.hardBlank) # IsHardBlank(call.right, Font.hardBlank)

\* C14: with SMUSH and none of the bits 1..32, and both widths >= 2, two
\* characters that are not whitespace always merge: to the visible one when
\* exactly one is the hard blank, else to the right one left-to-right and to
\* the left one right-to-left.
C14_UniversalSmushing ==
    UniversalCase =>
        /\ call.smushed # None
        /\ ExactlyOneHardBlank =>
              call.smushed = IF IsHardBlank(call.left, Font.hardBlank)
                             THEN call.right ELSE call.left
        /\ ~ExactlyOneHardBlank =>
              call.smushed = IF direction = "right-to-left"
                             THEN call.left ELSE call.right

\* right-to-left, "a" on the left against "|" gives "a"
C14_Witness ==
    /\ UniversalCase
    /\ direction = "right-to-left"
    /\ Font.hardBlank = <<"$">>
    /\ call.left = "a"
    /\ call.right = "|"
    /\ call.smushed = "a"


\* ------------------------------------------------------------------------
\* FigletString.reverse
\* ------------------------------------------------------------------------
MaxRowLen == 2

\* a table that maps the opening character of a pair only
ReverseMap_OneWay(c) ==
    CASE c = "(" -> ")"
      [] c = "[" -> "]"
      [] c = "{" -> "}"
      [] c = "<" -> ">"
      [] c = "/" -> "\\"
      [] OTHER -> c

\* FigletString.__reverse_map__[ord(c)]: the table is the identity but for
\* ( ) [ ] { } < > / \
ReverseMap(c) ==
    CASE c = "(" -> ")"
      [] c = ")" -> "("
      [] c = "[" -> "]"
      [] c = "]" -> "["
      [] c = "{" -> "}"
      [] c = "}" -> "{"
      [] c = "<" -> ">"
      [] c = ">" -> "<"
      [] c = "/" -> "\\"
      [] c = "\\" -> "/"
      [] OTHER -> c

\* the characters str.splitlines() ends a line at: \n \r \f, and on the
\* second line U+000B, U+001C, U+001D, U+001E and U+0085, written as the
\* characters themselves (a string of this module cannot hold the other
\* two, U+2028 and U+2029)
LineBreaks ==
    {"\n", "\r", "\f",
     "", "", "", "", ""}

RECURSIVE LineEnd(_, _)
\* the index of the first line break of s at or after k, 0 when there is none
LineEnd(s, k) ==
    IF k > Len(s) THEN 0
    ELSE IF s[k] \in LineBreaks THEN k
    ELSE LineEnd(s, k + 1)

RECURSIVE splitlines(_)
\* str.splitlines(): "\r\n" is one line break, and no empty line follows
\* the last one
splitlines(s) ==
    IF s = << >> THEN << >>
    ELSE LET k == LineEnd(s, 1)
             n == IF k > 0 /\ s[k] = "\r" /\ k < Len(s) /\ s[k + 1] = "\n"
                  THEN 2 ELSE 1
         IN  IF k = 0 THEN <<s>>
             ELSE <<SubSeq(s, 1, k - 1)>> \o splitlines(SubSeq(s, k + n, Len(s)))

\* row.translate(self.__reverse_map__)[::-1]
ReverseRow(row) == [i \in 1..Len(row) |-> ReverseMap(row[Len(row) + 1 - i])]

\* FigletString.reverse, with newFromList
reverse(s) == Join([r \in 1..Len(splitlines(s)) |-> ReverseRow(splitlines(s)[r])])

RowChars == {"(", "[", "{", "<", "/", "a", "\r"}

Rows == UNION {[1..n -> RowChars] : n \in 0..MaxRowLen}

\* blocks of one row and of two: every row is ended by a newline
Blocks == {Join(<<r>>) : r \in Rows} \cup {Join(<<r, q>>) : r \in Rows, q \in Rows}

\* no font is loaded, nothing is rendered, no FigletString is made yet
InitString ==
    /\ InitLoad
    /\ found = FALSE
    /\ file = << >>
    /\ kwargs = << >>

\* FigletString(block)
NewString ==
    /\ fstring = NoString
    /\ \E b \in Blocks : fstring' = [self |-> b, out |-> b, n |-> 0]
    /\ UNCHANGED <<Font, rvars, lvars, call, renders>>

\* reverse() of what the last reverse() returned (of the string itself the
\* first time)
Reverse ==
    /\ fstring.self # << >>
    /\ fstring.n < 2
    /\ fstring' = [fstring EXCEPT !.out = reverse(fstring.out), !.n = @ + 1]
    /\ UNCHANGED <<Font, rvars, lvars, call, renders>>

NextString == NewString \/ Reverse

SpecString == InitString /\ [][NextString]_vars

\* ------------------------------------------------------------------------
\* Properties of reverse
\* ------------------------------------------------------------------------
RECURSIVE RowsOf(_)
\* the rows of a block: what stands before each of its newlines
RowsOf(b) ==
    IF b = << >> THEN << >>
    ELSE LET k == CHOOSE j \in 1..Len(b) :
                     b[j] = "\n" /\ \A i \in 1..(j - 1) : b[i] # "\n"
         IN  <<SubSeq(b, 1, k - 1)>> \o RowsOf(SubSeq(b, k + 1, Len(b)))

SameShape(a, b) ==
    /\ Len(RowsOf(a)) = Len(RowsOf(b))
    /\ \A r \in 1..Len(RowsOf(a)) : Len(RowsOf(a)[r]) = Len(RowsOf(b)[r])

MirrorPairs == {<<"(", ")">>, <<"[", "]">>, <<"{", "}">>, <<"<", ">">>, <<"/", "\\">>}

\* the partner of a character of a pair, the character itself otherwise
Mirror(c) ==
    IF \E p \in MirrorPairs : p[1] = c THEN (CHOOSE p \in MirrorPairs : p[1] = c)[2]
    ELSE IF \E p \in MirrorPairs : p[2] = c
         THEN (CHOOSE p \in MirrorPairs : p[2] = c)[1]
    ELSE c

\* b is a with every row read backwards and every character mirrored
IsMirrorOf(b, a) ==
    /\ SameShape(a, b)
    /\ \A r \in 1..Len(RowsOf(a)) : \A i \in 1..Len(RowsOf(a)[r]) :
          RowsOf(b)[r][i] = Mirror(RowsOf(a)[r][Len(RowsOf(a)[r]) + 1 - i])

\* C15 as claimed: for every block of newline-terminated rows, reverse()
\* twice gives the block back, and reverse() keeps the number of rows and
\* the length of each.
C15_ReverseInvolution ==
    /\ fstring.n = 2 => fstring.out = fstring.self
    /\ fstring.n >= 1 => SameShape(fstring.self, fstring.out)

\* no row holds a character that str.splitlines() ends a line at
NoLineBreakInRows(b) ==
    \A r \in 1..Len(RowsOf(b)) : \A i \in 1..Len(RowsOf(b)[r]) :
        RowsOf(b)[r][i] \notin LineBreaks

\* C15, amended: for every block of newline-terminated rows none of which
\* holds a line break of str.splitlines(), reverse() gives the block with
\* every row backwards and the characters of the pairs ( ) [ ] { } < > / \
\* swapped, so it keeps the number of rows and the length of each, and
\* reverse() twice gives the block back.
C15_ReverseInvolutionOfRows ==
    NoLineBreakInRows(fstring.self) =>
        /\ fstring.n = 1 => IsMirrorOf(fstring.out, fstring.self)
        /\ fstring.n >= 1 => SameShape(fstring.self, fstring.out)
        /\ fstring.n = 2 => fstring.out = fstring.self

\* "(a" over "/<" has been reversed twice
C15_Witness ==
    /\ fstring.n = 2
    /\ fstring.self = <<"(", "a", "\n", "/", "<", "\n">>
    /\ fstring.out = fstring.self

=============================================================================
